---- MODULE Spec2Model ----
(***************************************************************************)
(* Resume enhancement workflow: mapping -> gate -> feedback | enhance ->   *)
(* format -> report, with the three per-section enhancement strategies     *)
(* (incremental, sectional, streaming) and the single-call (legacy) one.    *)
(* One request is modelled from its entry point (the compiled graph or the  *)
(* SSE endpoint) to its response.                                           *)
(***************************************************************************)
EXTENDS Integers, Sequences, FiniteSets, TLC

\* ------------------------------------------------------------------ bounds
\* the configured SCORE_THRESHOLD of the workflow specification
ConfiguredThreshold == 7
\* thresholds and scores explored by the gate specification
GateMinThreshold == 0
GateMaxThreshold == 11
\* chunks one request's model streams may deliver in total
MaxChunks == 2
\* longest enhanced list explored by the merge specification
MaxEnhancedLen == 3

\* ------------------------------------------------------- program constants
INCREMENTAL_MAX_RETRIES == 3
SECTIONAL_MAX_RETRIES == 2
STREAMING_MAX_RETRIES == 2
DELTA_INTERVAL_MS == 250
MIN_CHUNK_SIZE == 10
MinScore == 1
MaxScore == 10

None == [tag |-> "None"]

SECTIONS ==
  <<"summary", "experiences", "educations", "skills",
    "certifications", "languages", "projects">>

total_sections == Len(SECTIONS)

SectionNames == {SECTIONS[i] : i \in 1..total_sections}

ValidatedSections == {"experiences", "educations", "projects"}

\* --------------------------------------------------------------- variables
VARIABLES
  mode,                     \* "legacy" | "incremental" | "sectional" (graph), "streaming" (SSE endpoint)
  llm,                      \* "set" | "none": the shared chat model object
  SCORE_THRESHOLD,          \* settings.SCORE_THRESHOLD
  resume,                   \* state.resume (request body)
  job_description,          \* state.job_description (request body)
  pc,                       \* position of the request in the workflow
  mapping_result,           \* state.mapping_result
  full_enhancement_output,  \* state.full_enhancement_output
  enhanced_resume,          \* state.enhanced_resume
  report_summary,           \* state.report_summary
  feedback_message,         \* state.feedback_message
  section_errors,           \* section_errors of the sectional pass, returned as state.section_errors
  full_output,              \* the enhancement pass's accumulator
  section_index,            \* loop variable of the pass (0-based)
  attempt,                  \* loop variable of the retry loop (0-based)
  result,                   \* local "result" of the section being processed
  last_error,               \* local "last_error"
  accumulated_text,         \* streaming: chunk lengths received in this attempt
  last_sent_length,         \* streaming: characters already sent in deltas
  time_since_last,          \* streaming: ms since last_delta_time (capped)
  events,                   \* progress_events (incremental) / SSE events (streaming)
  stages,                   \* history: the stages run so far, in order
  section_status,           \* history: section -> pending/in_progress/complete/failed
  started,                  \* history: section indices whose processing started, in order
  calls,                    \* history: gateway calls made for the current section
  succeeded,                \* history: an attempt of the current section succeeded
  chunks_used,              \* history: chunks delivered so far (bounded by MaxChunks)
  cancelled,                \* history: the request was cancelled / the client went away
  gateway_calls,            \* history: the gateway calls of mapping, feedback, enhance (single call) and report
  raw_output                \* history: the FullEnhancementOutput as the enhancement stage returned it

vars ==
  <<mode, llm, SCORE_THRESHOLD, resume, job_description, pc, mapping_result,
    full_enhancement_output, enhanced_resume, report_summary,
    feedback_message, section_errors, full_output, section_index, attempt,
    result, last_error, accumulated_text, last_sent_length, time_since_last,
    events, stages, section_status, started, calls, succeeded, chunks_used,
    cancelled, gateway_calls, raw_output>>

\* ---------------------------------------------------------------- content
\* Strings that the code inspects (startswith) are sequences of tokens;
\* an absent or empty project_link is the empty sequence (both are falsy).
\* The three Optional lists of a resume are sequences; null_fields names
\* those that are null.
NoDate == "None"

startswith_url(s) == Len(s) > 0 /\ s[1] \in {"http://", "https://"}

SampleResume ==
  [ personal_info  |-> [full_name |-> "Ada", email_address |-> "ada@x.org"],
    summary        |-> "summary-original",
    educations     |-> << [degree |-> "BSc", major |-> "CS",
                           university_name |-> "MIT",
                           start_date |-> "2010-09", end_date |-> "2014-06"] >>,
    experiences    |-> << [role_title |-> "Engineer", company_name |-> "Acme",
                           start_date |-> "2015-01", end_date |-> NoDate,
                           description |-> "built things"],
                          [role_title |-> "Intern", company_name |-> "Initech",
                           start_date |-> "2014-07", end_date |-> "2014-12",
                           description |-> "helped"] >>,
    skills         |-> << [skill_name |-> "python", skill_type |-> "technical"] >>,
    certifications |-> << [certification_name |-> "AWS", issue_date |-> "2020-01"] >>,
    languages      |-> << [language |-> "English", proficiency_level |-> "C1"] >>,
    projects       |-> << [project_name |-> <<"Resume", "Tool">>,
                           description |-> "a tool",
                           project_link |-> <<"https://", "x.org/tool">>] >>,
    null_fields    |-> {} ]

Resumes == {SampleResume}

\* the job description is only serialised into the prompts
SampleJobDescription == [tag |-> "JobDescription"]

\* Optional[List[...]] fields of Resume: a null list is recorded in
\* null_fields (and held as the empty sequence)
NullableSections == {"experiences", "certifications", "projects"}

WithNullLists(r, nulls) ==
  [f \in DOMAIN r |->
     IF f = "null_fields" THEN nulls
     ELSE IF f \in nulls THEN <<>>
     ELSE r[f]]

Reason(loc) == [field_or_location |-> loc, reason |-> "relevance"]

\* What the model returns for a section when the call succeeds: an instance of
\* the section's output schema. The model is free to ignore its instructions,
\* so protected fields are changed in the returned content.
SectionOutput(section_name, r) ==
  CASE section_name = "summary" ->
         [enhanced |-> "summary-enhanced", reasons |-> <<Reason("summary")>>]
    [] section_name = "experiences" ->
         [enhanced |-> << [r.experiences[1] EXCEPT !.description = "led things",
                                                   !.start_date = "2016-01",
                                                   !.role_title = "Principal"] >>,
          reasons |-> <<Reason("experiences[0].description")>>]
    [] section_name = "educations" ->
         [enhanced |-> << [r.educations[1] EXCEPT !.major = "Computer Science",
                                                  !.degree = "MSc",
                                                  !.end_date = NoDate] >>,
          reasons |-> <<Reason("educations[0].major")>>]
    [] section_name = "skills" ->
         [enhanced |-> << [skill_name |-> "Python 3", skill_type |-> "technical"] >>,
          reasons |-> <<Reason("skills")>>]
    [] section_name = "certifications" ->
         [enhanced |-> << [certification_name |-> "AWS Architect",
                           issue_date |-> "2020-01"] >>,
          reasons |-> <<Reason("certifications[0]")>>]
    [] section_name = "languages" ->
         [enhanced |-> << [language |-> "English (fluent)",
                           proficiency_level |-> "C1"] >>,
          reasons |-> <<Reason("languages[0]")>>]
    [] section_name = "projects" ->
         [enhanced |-> << [project_name |-> <<"https://", "x.org/tool">>,
                           description |-> "a resume tool",
                           project_link |-> <<"see", "repo">>] >>,
          reasons |-> <<Reason("projects[0].description")>>]

\* Return values of a structured gateway call that are not an instance of the
\* requested schema: a value without model_dump (a dict), and an instance of
\* some other model class.
WrongDict == [tag |-> "WrongType", has_model_dump |-> FALSE]
WrongModel == [tag |-> "WrongType", has_model_dump |-> TRUE]

isinstance_output(x) == x # None /\ "enhanced" \in DOMAIN x

\* FullEnhancementOutput(): every section absent
EmptyFullOutput == [s \in SectionNames |-> None]

\* ------------------------------------------------------------- validation
Revert(enhanced_value, original_value) ==
  IF enhanced_value # original_value THEN original_value ELSE enhanced_value

\* variant: role_title is not among the reverted fields
validate_experiences_KeepsRole(enhanced, original) ==
  [i \in 1..Len(enhanced) |->
     IF i > Len(original) THEN enhanced[i]
     ELSE [enhanced[i] EXCEPT
             !.start_date = Revert(@, original[i].start_date),
             !.end_date = Revert(@, original[i].end_date),
             !.company_name = Revert(@, original[i].company_name)]]

validate_experiences(enhanced, original) ==
  [i \in 1..Len(enhanced) |->
     IF i > Len(original) THEN enhanced[i]
     ELSE [enhanced[i] EXCEPT
             !.start_date = Revert(@, original[i].start_date),
             !.end_date = Revert(@, original[i].end_date),
             !.company_name = Revert(@, original[i].company_name),
             !.role_title = Revert(@, original[i].role_title)]]

validate_educations(enhanced, original) ==
  [i \in 1..Len(enhanced) |->
     IF i > Len(original) THEN enhanced[i]
     ELSE [enhanced[i] EXCEPT
             !.start_date = Revert(@, original[i].start_date),
             !.end_date = Revert(@, original[i].end_date),
             !.university_name = Revert(@, original[i].university_name),
             !.degree = Revert(@, original[i].degree)]]

\* variant: the result stops at the end of the original list
validate_projects_Truncates(enhanced, original) ==
  [i \in 1..(IF Len(enhanced) < Len(original) THEN Len(enhanced) ELSE Len(original)) |->
     [enhanced[i] EXCEPT
        !.project_name =
           IF startswith_url(@) THEN original[i].project_name ELSE @,
        !.project_link =
           IF Len(@) > 0 /\ ~startswith_url(@)
             THEN original[i].project_link ELSE @]]

validate_projects(enhanced, original) ==
  [i \in 1..Len(enhanced) |->
     IF i > Len(original) THEN enhanced[i]
     ELSE [enhanced[i] EXCEPT
             !.project_name =
                IF startswith_url(@) THEN original[i].project_name ELSE @,
             !.project_link =
                IF Len(@) > 0 /\ ~startswith_url(@)
                  THEN original[i].project_link ELSE @]]

\* len(original) on a null original list raises TypeError; the loop reaches
\* it only when the enhanced list has an item
validator_raises(section_name, r, out) ==
  /\ section_name \in ValidatedSections
  /\ section_name \in r.null_fields
  /\ Len(out.enhanced) > 0

\* variant: the languages of the original are used in both branches
MergedSection_OriginalLanguages(section_name, r, out) ==
  CASE section_name = "experiences" -> validate_experiences(out.enhanced, r.experiences)
    [] section_name = "educations" -> validate_educations(out.enhanced, r.educations)
    [] section_name = "projects" -> validate_projects(out.enhanced, r.projects)
    [] section_name = "languages" -> r.languages
    [] OTHER -> out.enhanced

\* The content a populated section contributes to the merged resume.
MergedSection(section_name, r, out) ==
  CASE section_name = "experiences" -> validate_experiences(out.enhanced, r.experiences)
    [] section_name = "educations" -> validate_educations(out.enhanced, r.educations)
    [] section_name = "projects" -> validate_projects(out.enhanced, r.projects)
    [] OTHER -> out.enhanced

\* _build_enhanced_resume: enhanced content where the section is present,
\* the original field otherwise; personal_info is copied.
\* variant: a section absent from the output is left empty instead of
\* falling back to the original
build_enhanced_resume_NoFallback(r, fo) ==
  [ personal_info  |-> r.personal_info,
    summary        |-> IF fo.summary # None
                         THEN MergedSection("summary", r, fo.summary)
                         ELSE r.summary,
    educations     |-> IF fo.educations # None
                         THEN MergedSection("educations", r, fo.educations)
                         ELSE <<>>,
    experiences    |-> IF fo.experiences # None
                         THEN MergedSection("experiences", r, fo.experiences)
                         ELSE <<>>,
    skills         |-> IF fo.skills # None
                         THEN MergedSection("skills", r, fo.skills)
                         ELSE <<>>,
    certifications |-> IF fo.certifications # None
                         THEN MergedSection("certifications", r, fo.certifications)
                         ELSE <<>>,
    languages      |-> IF fo.languages # None
                         THEN MergedSection("languages", r, fo.languages)
                         ELSE <<>>,
    projects       |-> IF fo.projects # None
                         THEN MergedSection("projects", r, fo.projects)
                         ELSE <<>>,
    null_fields    |-> {f \in r.null_fields : fo[f] = None} ]

build_enhanced_resume(r, fo) ==
  [ personal_info  |-> r.personal_info,
    summary        |-> IF fo.summary # None
                         THEN MergedSection("summary", r, fo.summary)
                         ELSE r.summary,
    educations     |-> IF fo.educations # None
                         THEN MergedSection("educations", r, fo.educations)
                         ELSE r.educations,
    experiences    |-> IF fo.experiences # None
                         THEN MergedSection("experiences", r, fo.experiences)
                         ELSE r.experiences,
    skills         |-> IF fo.skills # None
                         THEN MergedSection("skills", r, fo.skills)
                         ELSE r.skills,
    certifications |-> IF fo.certifications # None
                         THEN MergedSection("certifications", r, fo.certifications)
                         ELSE r.certifications,
    languages      |-> IF fo.languages # None
                         THEN MergedSection("languages", r, fo.languages)
                         ELSE r.languages,
    projects       |-> IF fo.projects # None
                         THEN MergedSection("projects", r, fo.projects)
                         ELSE r.projects,
    null_fields    |-> {f \in r.null_fields : fo[f] = None} ]

\* The validators assign to the items of the enhanced lists in place, so the
\* FullEnhancementOutput held in state shares the corrected items.
\* variant: the validator's assignment goes to the original item
original_after_validation_WritesOriginal(section_name, enhanced, original) ==
  IF section_name = "experiences"
    THEN [i \in 1..Len(original) |->
            IF i > Len(enhanced) THEN original[i]
            ELSE [original[i] EXCEPT !.role_title = enhanced[i].role_title]]
    ELSE original

\* the original list once a validator returned: its assignments have an item
\* of the enhanced list on the left, original[i] is only read
original_after_validation(section_name, enhanced, original) == original

\* state.resume once _build_enhanced_resume returned; the new Resume is
\* built from the locals and the original object is passed to no writer
resume_after_format(r, fo) ==
  [f \in DOMAIN r |->
     IF f \in ValidatedSections /\ fo[f] # None
       THEN original_after_validation(f, fo[f].enhanced, r[f])
       ELSE r[f]]

after_validation(r, fo) ==
  [s \in SectionNames |->
     IF fo[s] # None /\ s \in ValidatedSections
       THEN [fo[s] EXCEPT !.enhanced = MergedSection(s, r, fo[s])]
       ELSE fo[s]]

_collect_reasons(fo) ==
  (IF fo.summary # None THEN fo.summary.reasons ELSE <<>>) \o
  (IF fo.experiences # None THEN fo.experiences.reasons ELSE <<>>) \o
  (IF fo.educations # None THEN fo.educations.reasons ELSE <<>>) \o
  (IF fo.skills # None THEN fo.skills.reasons ELSE <<>>) \o
  (IF fo.certifications # None THEN fo.certifications.reasons ELSE <<>>) \o
  (IF fo.languages # None THEN fo.languages.reasons ELSE <<>>) \o
  (IF fo.projects # None THEN fo.projects.reasons ELSE <<>>)

\* ---------------------------------------------------------- model gateway
\* Every response of the model is a record, so that responses of different
\* kinds can be compared.
Raised == [tag |-> "raise"]

MappingResultOf(score) == [tag |-> "MappingResult", match_score |-> score]

\* scores the model returns in the workflow specification: on both sides of
\* the configured threshold, plus the two nearest values outside 1..10
ScoreSamples ==
  {ConfiguredThreshold - 1, ConfiguredThreshold} \cup {MinScore - 1, MaxScore + 1}

MappingResponses == {Raised, WrongModel} \cup {MappingResultOf(k) : k \in ScoreSamples}

\* structured call for one section
SectionResponses(section_name, r) ==
  {Raised, None, WrongDict, WrongModel, SectionOutput(section_name, r)}

\* single structured call for the whole FullEnhancementOutput (legacy mode):
\* the provider may leave any sub-field unpopulated (without a resume the call
\* is never reached, and there is no content to return)
FullResponses(r) ==
  {Raised, WrongModel} \cup
  IF r = None THEN {}
  ELSE { [s \in SectionNames |-> IF s \in populated THEN SectionOutput(s, r) ELSE None] :
           populated \in SUBSET SectionNames }

\* free-text call: message content as a sequence of characters, or no string
TextOf(chars) == [tag |-> "message", content |-> chars]
NonString == [tag |-> "message", content |-> <<"<non-str>">>, not_str |-> TRUE]
TextResponses ==
  {Raised, NonString, TextOf(<<>>), TextOf(<<" ", "\n">>), TextOf(<<" ", "o", "k">>)}

\* str.strip() without an argument removes whitespace
Whitespace == {" ", "\t", "\n"}

RECURSIVE lstrip(_)
lstrip(chars) ==
  IF chars # <<>> /\ Head(chars) \in Whitespace THEN lstrip(Tail(chars)) ELSE chars

RECURSIVE rstrip(_)
rstrip(chars) ==
  IF chars # <<>> /\ chars[Len(chars)] \in Whitespace
    THEN rstrip(SubSeq(chars, 1, Len(chars) - 1)) ELSE chars

strip(chars) == rstrip(lstrip(chars))

isinstance_str(response) == response.tag = "message" /\ "not_str" \notin DOMAIN response

\* one entry of the call history: the stage that called and what came back
\* (the single enhancement call's output is kept in raw_output instead)
GatewayCall(stage, response) ==
  [stage |-> stage,
   response |-> IF "tag" \in DOMAIN response THEN response
                ELSE [tag |-> "FullEnhancementOutput"]]

\* -------------------------------------------------------------- the nodes
\* A node either raises or returns a state update.
NodeRaises == [raised |-> TRUE]
NodeReturns(update) == [raised |-> FALSE, update |-> update]

call_raised(response) == "tag" \in DOMAIN response /\ response.tag = "raise"

valid_score(score) == MinScore <= score /\ score <= MaxScore

\* variant: an out-of-range score is clamped into the range
mapping_node_Clamping(r, jd, l, response) ==
  IF r = None THEN NodeRaises
  ELSE IF jd = None THEN NodeRaises
  ELSE IF l = "none" THEN NodeRaises
  ELSE IF call_raised(response) THEN NodeRaises
  ELSE IF response.tag # "MappingResult" THEN NodeRaises
  ELSE IF response.match_score < MinScore THEN NodeReturns(MappingResultOf(MinScore))
  ELSE IF response.match_score > MaxScore THEN NodeReturns(MappingResultOf(MaxScore))
  ELSE NodeReturns(MappingResultOf(response.match_score))

\* the call is made once the inputs and the model object were found present
mapping_calls_llm(r, jd, l) == r # None /\ jd # None /\ l # "none"

mapping_node(r, jd, l, response) ==
  IF r = None THEN NodeRaises
  ELSE IF jd = None THEN NodeRaises
  ELSE IF l = "none" THEN NodeRaises
  ELSE IF call_raised(response) THEN NodeRaises
  ELSE IF response.tag # "MappingResult" THEN NodeRaises
  ELSE IF ~valid_score(response.match_score) THEN NodeRaises
  ELSE NodeReturns(MappingResultOf(response.match_score))

\* variant: a score equal to the threshold is sent to feedback
route_after_mapping_Inclusive(mr, threshold) ==
  IF mr = None THEN "raise"
  ELSE IF mr.match_score <= threshold THEN "feedback"
  ELSE "enhance"

route_after_mapping(mr, threshold) ==
  IF mr = None THEN "raise"
  ELSE IF mr.match_score < threshold THEN "feedback"
  ELSE "enhance"

feedback_calls_llm(mr, l) == mr # None /\ l # "none"

\* variant: whatever text the model returned is accepted
feedback_node_AcceptsBlank(mr, l, response) ==
  IF mr = None THEN NodeRaises
  ELSE IF l = "none" THEN NodeRaises
  ELSE IF call_raised(response) THEN NodeRaises
  ELSE IF ~isinstance_str(response) THEN NodeRaises
  ELSE NodeReturns(TextOf(response.content))

feedback_node(mr, l, response) ==
  IF mr = None THEN NodeRaises
  ELSE IF l = "none" THEN NodeRaises
  ELSE IF call_raised(response) THEN NodeRaises
  ELSE IF ~isinstance_str(response) \/ strip(response.content) = <<>> THEN NodeRaises
  ELSE NodeReturns(TextOf(response.content))

enhance_calls_llm(r, mr, l) == r # None /\ mr # None /\ l # "none"

enhance_node(r, mr, l, response) ==
  IF r = None \/ mr = None THEN NodeRaises
  ELSE IF l = "none" THEN NodeRaises
  ELSE IF call_raised(response) THEN NodeRaises
  ELSE IF "summary" \notin DOMAIN response THEN NodeRaises
  ELSE NodeReturns(response)

\* a section holding something that is not a section output makes the merge raise
mergeable(fo) == \A s \in SectionNames : fo[s] = None \/ isinstance_output(fo[s])

merge_raises(r, fo) ==
  \E s \in ValidatedSections : fo[s] # None /\ validator_raises(s, r, fo[s])

\* variant: personal_info is rebuilt from the name instead of being copied
format_node_RebuildsContact(r, fo) ==
  IF r = None THEN NodeRaises
  ELSE IF fo = None THEN NodeRaises
  ELSE IF ~mergeable(fo) THEN NodeRaises
  ELSE IF merge_raises(r, fo) THEN NodeRaises
  ELSE NodeReturns([build_enhanced_resume(r, fo) EXCEPT
                      !.personal_info = [@ EXCEPT !.email_address = "unknown"]])

format_node(r, fo) ==
  IF r = None THEN NodeRaises
  ELSE IF fo = None THEN NodeRaises
  ELSE IF ~mergeable(fo) THEN NodeRaises
  ELSE IF merge_raises(r, fo) THEN NodeRaises
  ELSE NodeReturns(build_enhanced_resume(r, fo))

\* report_node: the summary call is made only when there are reasons; a
\* failure of the call is logged and the summary stays None.
\* variant: the summary call does not depend on the reasons
report_calls_llm_Always(fo, l) == l # "none"

report_calls_llm(fo, l) == l # "none" /\ _collect_reasons(fo) # <<>>

\* the reasons were collected without error and the call is made
report_reaches_call(fo, l) == fo # None /\ mergeable(fo) /\ report_calls_llm(fo, l)

\* variant: a missing enhancement output is treated as "nothing to report"
report_node_ToleratesMissingOutput(fo, l, response) ==
  IF fo = None THEN NodeReturns(None)
  ELSE IF ~mergeable(fo) THEN NodeRaises
  ELSE IF ~report_calls_llm(fo, l) THEN NodeReturns(None)
  ELSE IF call_raised(response) THEN NodeReturns(None)
  ELSE IF isinstance_str(response) /\ strip(response.content) # <<>>
         THEN NodeReturns(TextOf(strip(response.content)))
  ELSE NodeReturns(None)

report_node(fo, l, response) ==
  IF fo = None THEN NodeRaises
  ELSE IF ~mergeable(fo) THEN NodeRaises
  ELSE IF ~report_calls_llm(fo, l) THEN NodeReturns(None)
  ELSE IF call_raised(response) THEN NodeReturns(None)
  ELSE IF isinstance_str(response) /\ strip(response.content) # <<>>
         THEN NodeReturns(TextOf(strip(response.content)))
  ELSE NodeReturns(None)

\* ----------------------------------------------------------------- events
\* progress_percent is kept in tenths of a percent (the code rounds to one
\* decimal); NoProgress marks an event without the field.
NoProgress == -1
NoSection == -1

\* round(): to the nearest, a tie to the even neighbour
RoundDiv(n, d) ==
  LET q == n \div d
      twice_rest == 2 * (n % d)
  IN IF twice_rest > d \/ (twice_rest = d /\ q % 2 = 1) THEN q + 1 ELSE q

progress_of(done_sections) == RoundDiv(done_sections * 1000, total_sections)

RECURSIVE TextLen(_)
TextLen(text) == IF text = <<>> THEN 0 ELSE Head(text) + TextLen(Tail(text))

Min(a, b) == IF a < b THEN a ELSE b

\* progress_base + (min(0.9, len/2000) / total_sections) * 100, in tenths
delta_progress(index, text) ==
  RoundDiv(2000 * index + Min(1800, TextLen(text)), 2 * total_sections)

\* "attempt_no" is history (the retry attempt that emitted a delta); it is not
\* part of the payload.
Event(type, index, progress) ==
  [event_type |-> type, section_index |-> index, progress_percent |-> progress,
   accumulated_text |-> <<>>, attempt_no |-> -1]

DeltaEvent(index, text, att) ==
  [event_type |-> "section_delta", section_index |-> index,
   progress_percent |-> delta_progress(index, text),
   accumulated_text |-> text, attempt_no |-> att]

section_name_at(index) == SECTIONS[index + 1]

PendingAll == [s \in SectionNames |-> "pending"]

\* ------------------------------------------------------------------- Init
Init ==
  /\ mode \in {"legacy", "incremental", "sectional", "streaming"}
  /\ llm \in {"set", "none"}
  /\ SCORE_THRESHOLD = ConfiguredThreshold
  /\ resume \in Resumes
  /\ job_description = SampleJobDescription
  /\ pc = IF mode = "streaming" THEN "start" ELSE "mapping"
  /\ mapping_result = None
  /\ full_enhancement_output = None
  /\ enhanced_resume = None
  /\ report_summary = None
  /\ feedback_message = None
  /\ section_errors = [s \in {} |-> "msg"]
  /\ full_output = EmptyFullOutput
  /\ section_index = 0
  /\ attempt = 0
  /\ result = None
  /\ last_error = None
  /\ accumulated_text = <<>>
  /\ last_sent_length = 0
  /\ time_since_last = 0
  /\ events = <<>>
  /\ stages = <<>>
  /\ section_status = PendingAll
  /\ started = <<>>
  /\ calls = 0
  /\ succeeded = FALSE
  /\ chunks_used = 0
  /\ cancelled = FALSE
  /\ gateway_calls = <<>>
  /\ raw_output = None

config_vars == <<mode, llm, SCORE_THRESHOLD, resume, job_description>>
history_vars == <<gateway_calls, raw_output>>
outcome_vars ==
  <<mapping_result, full_enhancement_output, enhanced_resume, report_summary,
    feedback_message, section_errors>>
pass_vars ==
  <<full_output, section_index, attempt, result, last_error, section_status,
    started, calls, succeeded>>
stream_vars == <<accumulated_text, last_sent_length, time_since_last, chunks_used>>

InGraph == mode \in {"legacy", "incremental", "sectional"}

\* ------------------------------------------------- the compiled graph
\* Edges of build_graph: the node that runs after a node returned.
\* variant: the feedback node is wired into the enhancement tail
graph_edge_FeedbackToFormat(node) ==
  CASE node = "enhance" -> "format"
    [] node = "format" -> "report"
    [] node = "report" -> "END"
    [] node = "feedback" -> "format"

graph_edge(node) ==
  CASE node = "enhance" -> "format"
    [] node = "format" -> "report"
    [] node = "report" -> "END"
    [] node = "feedback" -> "END"

\* variant: the two targets of the conditional edge are swapped
conditional_edge_Swapped(route) ==
  CASE route = "feedback" -> "enhance"
    [] route = "enhance" -> "feedback"

conditional_edge(route) ==
  CASE route = "feedback" -> "feedback"
    [] route = "enhance" -> "enhance"

pc_of(node) == IF node = "END" THEN "done" ELSE node

\* entry point: mapping
GraphMapping ==
  /\ InGraph /\ pc = "mapping"
  /\ \E response \in MappingResponses :
       LET out == mapping_node(resume, job_description, llm, response) IN
         /\ stages' = Append(stages, "mapping")
         /\ gateway_calls' =
              IF mapping_calls_llm(resume, job_description, llm)
                THEN Append(gateway_calls, GatewayCall("mapping", response))
                ELSE gateway_calls
         /\ IF out.raised
              THEN pc' = "error" /\ UNCHANGED mapping_result
              ELSE pc' = "gate" /\ mapping_result' = out.update
  /\ UNCHANGED <<config_vars, raw_output, full_enhancement_output, enhanced_resume,
                 report_summary, feedback_message, section_errors, pass_vars,
                 stream_vars, events, cancelled>>

\* conditional edge after mapping
GraphGate ==
  /\ InGraph /\ pc = "gate"
  /\ LET route == route_after_mapping(mapping_result, SCORE_THRESHOLD) IN
       /\ stages' = Append(stages, "gate")
       /\ pc' = IF route = "raise" THEN "error" ELSE pc_of(conditional_edge(route))
  /\ UNCHANGED <<config_vars, history_vars, outcome_vars, pass_vars, stream_vars, events, cancelled>>

GraphFeedback ==
  /\ InGraph /\ pc = "feedback"
  /\ \E response \in TextResponses :
       LET out == feedback_node(mapping_result, llm, response) IN
         /\ stages' = Append(stages, "feedback")
         /\ gateway_calls' =
              IF feedback_calls_llm(mapping_result, llm)
                THEN Append(gateway_calls, GatewayCall("feedback", response))
                ELSE gateway_calls
         /\ IF out.raised
              THEN pc' = "error" /\ UNCHANGED feedback_message
              ELSE pc' = pc_of(graph_edge("feedback")) /\ feedback_message' = out.update
  /\ UNCHANGED <<config_vars, raw_output, mapping_result, full_enhancement_output,
                 enhanced_resume, report_summary, section_errors, pass_vars,
                 stream_vars, events, cancelled>>

\* enhance_router, legacy branch: one call for the whole output
GraphEnhanceLegacy ==
  /\ mode = "legacy" /\ pc = "enhance"
  /\ \E response \in FullResponses(resume) :
       LET out == enhance_node(resume, mapping_result, llm, response) IN
         /\ stages' = Append(stages, "enhance")
         /\ gateway_calls' =
              IF enhance_calls_llm(resume, mapping_result, llm)
                THEN Append(gateway_calls, GatewayCall("enhance", response))
                ELSE gateway_calls
         /\ IF out.raised
              THEN pc' = "error" /\ UNCHANGED <<full_enhancement_output, raw_output>>
              ELSE /\ pc' = pc_of(graph_edge("enhance"))
                   /\ full_enhancement_output' = out.update
                   /\ raw_output' = out.update
  /\ UNCHANGED <<config_vars, mapping_result, enhanced_resume, report_summary,
                 feedback_message, section_errors, pass_vars, stream_vars,
                 events, cancelled>>

GraphFormat ==
  /\ InGraph /\ pc = "format"
  /\ LET out == format_node(resume, full_enhancement_output) IN
       /\ stages' = Append(stages, "format")
       /\ IF out.raised
            THEN pc' = "error" /\ UNCHANGED <<resume, enhanced_resume, full_enhancement_output>>
            ELSE /\ pc' = pc_of(graph_edge("format"))
                 /\ enhanced_resume' = out.update
                 /\ full_enhancement_output' =
                      after_validation(resume, full_enhancement_output)
                 /\ resume' = resume_after_format(resume, full_enhancement_output)
  /\ UNCHANGED <<mode, llm, SCORE_THRESHOLD, job_description, history_vars, mapping_result,
                 report_summary, feedback_message, section_errors, pass_vars,
                 stream_vars, events, cancelled>>

GraphReport ==
  /\ InGraph /\ pc = "report"
  /\ \E response \in TextResponses :
       LET out == report_node(full_enhancement_output, llm, response) IN
         /\ stages' = Append(stages, "report")
         /\ gateway_calls' =
              IF report_reaches_call(full_enhancement_output, llm)
                THEN Append(gateway_calls, GatewayCall("report", response))
                ELSE gateway_calls
         /\ IF out.raised
              THEN pc' = "error" /\ UNCHANGED report_summary
              ELSE pc' = pc_of(graph_edge("report")) /\ report_summary' = out.update
  /\ UNCHANGED <<config_vars, raw_output, mapping_result, full_enhancement_output,
                 enhanced_resume, feedback_message, section_errors, pass_vars,
                 stream_vars, events, cancelled>>

\* ------------------------------------------- per-section strategies, shared
ErrorMessage(kind) == [tag |-> "error", kind |-> kind]

max_retries(m) ==
  CASE m = "incremental" -> INCREMENTAL_MAX_RETRIES
    [] m = "sectional" -> SECTIONAL_MAX_RETRIES
    [] m = "streaming" -> STREAMING_MAX_RETRIES
    [] OTHER -> 1

current_section == section_name_at(section_index)

\* loop head of a pass: bookkeeping common to the three strategies
BeginSection ==
  /\ result' = None
  /\ last_error' = None
  /\ attempt' = 0
  /\ calls' = 0
  /\ succeeded' = FALSE
  /\ started' = Append(started, section_index)
  /\ section_status' = [section_status EXCEPT ![current_section] = "in_progress"]

\* where the retry loop goes after a failed attempt
after_failure(m, att) ==
  IF att < max_retries(m) - 1 THEN "attempt" ELSE "section_end"

\* ------------------------------------------------------ incremental node
IncrementalEnter ==
  /\ mode = "incremental" /\ pc = "enhance"
  /\ stages' = Append(stages, "enhance")
  /\ IF resume = None \/ mapping_result = None \/ llm = "none"
       THEN pc' = "error" /\ UNCHANGED <<full_output, section_index, events>>
       ELSE /\ pc' = "section"
            /\ full_output' = EmptyFullOutput
            /\ section_index' = 0
            /\ events' = <<>>
  /\ UNCHANGED <<config_vars, history_vars, outcome_vars, attempt, result, last_error,
                 section_status, started, calls, succeeded, stream_vars, cancelled>>

IncrementalSectionStart ==
  /\ mode = "incremental" /\ pc = "section"
  /\ events' = Append(events, Event("section_start", section_index,
                                    progress_of(section_index)))
  /\ BeginSection
  /\ pc' = "attempt"
  /\ UNCHANGED <<config_vars, history_vars, outcome_vars, full_output, section_index,
                 stream_vars, stages, cancelled>>

\* one iteration of the retry loop: the call, the type check, the handler
IncrementalAttempt ==
  /\ mode = "incremental" /\ pc = "attempt"
  /\ calls' = calls + 1
  /\ \E response \in SectionResponses(current_section, resume) :
       IF call_raised(response)
         THEN /\ UNCHANGED <<result, succeeded>>
              /\ last_error' = ErrorMessage("call raised")
              /\ attempt' = attempt + 1
              /\ pc' = after_failure(mode, attempt)
         ELSE /\ result' = response
              /\ IF isinstance_output(response)
                   THEN /\ succeeded' = TRUE
                        /\ pc' = "section_end"
                        /\ UNCHANGED <<last_error, attempt>>
                   ELSE /\ last_error' = ErrorMessage("wrong type")
                        /\ attempt' = attempt + 1
                        /\ pc' = after_failure(mode, attempt)
                        /\ UNCHANGED succeeded
  /\ UNCHANGED <<config_vars, history_vars, outcome_vars, full_output, section_index,
                 section_status, started, stream_vars, events, stages, cancelled>>

\* variant: the loop over the sections stops one section early
next_section_pc_StopsEarly ==
  IF section_index + 2 < total_sections THEN "section" ELSE "return"

\* after the retry loop: store and report the section, then go on with the
\* next one or return the node's update
next_section_pc == IF section_index + 1 < total_sections THEN "section" ELSE "return"

IncrementalSectionEnd ==
  /\ mode = "incremental" /\ pc = "section_end"
  /\ IF result # None
       THEN /\ full_output' = [full_output EXCEPT ![current_section] = result]
            /\ IF "has_model_dump" \in DOMAIN result /\ ~result.has_model_dump
                 THEN \* result.model_dump raises AttributeError out of the node
                      /\ pc' = "error"
                      /\ UNCHANGED <<events, section_status, section_index>>
                 ELSE /\ events' = Append(events,
                            Event("section_complete", section_index,
                                  progress_of(section_index + 1)))
                      /\ section_status' =
                            [section_status EXCEPT ![current_section] = "complete"]
                      /\ pc' = next_section_pc
                      /\ section_index' = section_index + 1
       ELSE /\ events' = Append(events, Event("error", section_index, NoProgress))
            /\ section_status' = [section_status EXCEPT ![current_section] = "failed"]
            /\ pc' = next_section_pc
            /\ section_index' = section_index + 1
            /\ UNCHANGED full_output
  /\ UNCHANGED <<config_vars, history_vars, outcome_vars, attempt, result, last_error, started,
                 calls, succeeded, stream_vars, stages, cancelled>>

IncrementalReturn ==
  /\ mode = "incremental" /\ pc = "return"
  /\ full_enhancement_output' = full_output
  /\ raw_output' = full_output
  /\ pc' = pc_of(graph_edge("enhance"))
  /\ UNCHANGED <<config_vars, gateway_calls, mapping_result, enhanced_resume, report_summary,
                 feedback_message, section_errors, pass_vars, stream_vars,
                 events, stages, cancelled>>

\* -------------------------------------------------------- sectional node
SectionalEnter ==
  /\ mode = "sectional" /\ pc = "enhance"
  /\ stages' = Append(stages, "enhance")
  /\ IF resume = None \/ mapping_result = None \/ llm = "none"
       THEN pc' = "error" /\ UNCHANGED <<full_output, section_index>>
       ELSE /\ pc' = "section"
            /\ full_output' = EmptyFullOutput
            /\ section_index' = 0
  /\ UNCHANGED <<config_vars, history_vars, outcome_vars, attempt, result, last_error,
                 section_status, started, calls, succeeded, stream_vars,
                 events, cancelled>>

SectionalSectionStart ==
  /\ mode = "sectional" /\ pc = "section"
  /\ BeginSection
  /\ pc' = "attempt"
  /\ UNCHANGED <<config_vars, history_vars, outcome_vars, full_output, section_index,
                 stream_vars, events, stages, cancelled>>

\* one iteration of the retry loop of _enhance_single_section
SectionalAttempt ==
  /\ mode = "sectional" /\ pc = "attempt"
  /\ calls' = calls + 1
  /\ \E response \in SectionResponses(current_section, resume) :
       IF ~call_raised(response) /\ isinstance_output(response)
         THEN /\ result' = response
              /\ succeeded' = TRUE
              /\ pc' = "section_end"
              /\ UNCHANGED <<last_error, attempt>>
         ELSE /\ last_error' = ErrorMessage(IF call_raised(response)
                                              THEN "call raised" ELSE "wrong type")
              /\ attempt' = attempt + 1
              /\ pc' = after_failure(mode, attempt)
              /\ UNCHANGED <<result, succeeded>>
  /\ UNCHANGED <<config_vars, history_vars, outcome_vars, full_output, section_index,
                 section_status, started, stream_vars, events, stages, cancelled>>

SectionalSectionEnd ==
  /\ mode = "sectional" /\ pc = "section_end"
  /\ IF result # None
       THEN /\ full_output' = [full_output EXCEPT ![current_section] = result]
            /\ section_status' = [section_status EXCEPT ![current_section] = "complete"]
            /\ UNCHANGED section_errors
       ELSE /\ section_errors' = section_errors @@ (current_section :> last_error)
            /\ section_status' = [section_status EXCEPT ![current_section] = "failed"]
            /\ UNCHANGED full_output
  /\ pc' = next_section_pc
  /\ section_index' = section_index + 1
  /\ UNCHANGED <<config_vars, history_vars, mapping_result, full_enhancement_output,
                 enhanced_resume, report_summary, feedback_message, attempt,
                 result, last_error, started, calls, succeeded, stream_vars,
                 events, stages, cancelled>>

SectionalReturn ==
  /\ mode = "sectional" /\ pc = "return"
  /\ full_enhancement_output' = full_output
  /\ raw_output' = full_output
  /\ pc' = pc_of(graph_edge("enhance"))
  /\ UNCHANGED <<config_vars, gateway_calls, mapping_result, enhanced_resume, report_summary,
                 feedback_message, section_errors, pass_vars, stream_vars,
                 events, stages, cancelled>>

\* ------------------------------------------------- streaming (SSE) endpoint
RequestEvent(type) == Event(type, NoSection, NoProgress)

\* lengths of the chunks a stream delivers: empty, shorter than a delta's
\* minimum, exactly the minimum, and several times the minimum
ChunkLens == {0, MIN_CHUNK_SIZE \div 2, MIN_CHUNK_SIZE, 4 * MIN_CHUNK_SIZE}

\* "except Exception" handles exceptions derived from Exception; cancellation
\* (asyncio.CancelledError) and generator close (GeneratorExit) derive from
\* BaseException only.
\* variant: a handler that catches everything ("except BaseException")
except_Exception_catches_All(exception_class) ==
  exception_class \in {"Exception", "BaseException"}

except_Exception_catches(exception_class) == exception_class = "Exception"

\* variant: the endpoint sends a score equal to the threshold to feedback
stream_takes_feedback_Inclusive(mr, threshold) == mr.match_score <= threshold

\* the inline routing test of the endpoint
stream_takes_feedback(mr, threshold) == mr.match_score < threshold

\* variant: the missing-model branch does not return after its error event
StreamStart_NoReturn ==
  /\ mode = "streaming" /\ pc = "start"
  /\ IF llm = "none"
       THEN events' = Append(events, RequestEvent("error")) /\ pc' = "mapping"
       ELSE events' = Append(events, RequestEvent("mapping_start")) /\ pc' = "mapping"
  /\ UNCHANGED <<config_vars, history_vars, outcome_vars, pass_vars, stream_vars, stages, cancelled>>

StreamStart ==
  /\ mode = "streaming" /\ pc = "start"
  /\ IF llm = "none"
       THEN events' = Append(events, RequestEvent("error")) /\ pc' = "error"
       ELSE events' = Append(events, RequestEvent("mapping_start")) /\ pc' = "mapping"
  /\ UNCHANGED <<config_vars, history_vars, outcome_vars, pass_vars, stream_vars, stages, cancelled>>

\* variant: a failed mapping call is tried again
StreamMapping_Retries ==
  /\ mode = "streaming" /\ pc = "mapping"
  /\ \E response \in MappingResponses :
       LET out == mapping_node(resume, job_description, llm, response) IN
         /\ stages' = Append(stages, "mapping")
         /\ gateway_calls' =
              IF mapping_calls_llm(resume, job_description, llm)
                THEN Append(gateway_calls, GatewayCall("mapping", response))
                ELSE gateway_calls
         /\ IF out.raised
              THEN /\ pc' = "mapping"
                   /\ UNCHANGED <<events, mapping_result>>
              ELSE /\ mapping_result' = out.update
                   /\ IF out.update = None
                        THEN \* "Mapping failed": error event and return
                             /\ events' = Append(events, RequestEvent("error"))
                             /\ pc' = "error"
                        ELSE /\ events' = Append(events, RequestEvent("mapping_complete"))
                             /\ pc' = "gate"
  /\ UNCHANGED <<config_vars, raw_output, full_enhancement_output, enhanced_resume,
                 report_summary, feedback_message, section_errors, pass_vars,
                 stream_vars, cancelled>>

StreamMapping ==
  /\ mode = "streaming" /\ pc = "mapping"
  /\ \E response \in MappingResponses :
       LET out == mapping_node(resume, job_description, llm, response) IN
         /\ stages' = Append(stages, "mapping")
         /\ gateway_calls' =
              IF mapping_calls_llm(resume, job_description, llm)
                THEN Append(gateway_calls, GatewayCall("mapping", response))
                ELSE gateway_calls
         /\ IF out.raised
              THEN /\ events' = Append(events, RequestEvent("error"))
                   /\ pc' = "error"
                   /\ UNCHANGED mapping_result
              ELSE /\ mapping_result' = out.update
                   /\ IF out.update = None
                        THEN \* "Mapping failed": error event and return
                             /\ events' = Append(events, RequestEvent("error"))
                             /\ pc' = "error"
                        ELSE /\ events' = Append(events, RequestEvent("mapping_complete"))
                             /\ pc' = "gate"
  /\ UNCHANGED <<config_vars, raw_output, full_enhancement_output, enhanced_resume,
                 report_summary, feedback_message, section_errors, pass_vars,
                 stream_vars, cancelled>>

StreamGate ==
  /\ mode = "streaming" /\ pc = "gate"
  /\ stages' = Append(stages, "gate")
  /\ pc' = IF stream_takes_feedback(mapping_result, SCORE_THRESHOLD)
             THEN "feedback" ELSE "enhance"
  /\ UNCHANGED <<config_vars, history_vars, outcome_vars, pass_vars, stream_vars, events, cancelled>>

StreamFeedback ==
  /\ mode = "streaming" /\ pc = "feedback"
  /\ \E response \in TextResponses :
       LET out == feedback_node(mapping_result, llm, response) IN
         /\ stages' = Append(stages, "feedback")
         /\ gateway_calls' =
              IF feedback_calls_llm(mapping_result, llm)
                THEN Append(gateway_calls, GatewayCall("feedback", response))
                ELSE gateway_calls
         /\ IF out.raised
              THEN /\ events' = Append(events, RequestEvent("error"))
                   /\ pc' = "error"
                   /\ UNCHANGED feedback_message
              ELSE /\ events' = Append(events, RequestEvent("complete"))
                   /\ pc' = "done"
                   /\ feedback_message' = out.update
  /\ UNCHANGED <<config_vars, raw_output, mapping_result, full_enhancement_output,
                 enhanced_resume, report_summary, section_errors, pass_vars,
                 stream_vars, cancelled>>

\* stream_all_sections: accumulators
StreamEnter ==
  /\ mode = "streaming" /\ pc = "enhance"
  /\ stages' = Append(stages, "enhance")
  /\ IF resume = None \/ mapping_result = None
       THEN \* model_dump_json of None: AttributeError, caught by the endpoint
            /\ events' = Append(events, RequestEvent("error"))
            /\ pc' = "error"
            /\ UNCHANGED <<full_output, section_index>>
       ELSE /\ pc' = "section"
            /\ full_output' = EmptyFullOutput
            /\ section_index' = 0
            /\ UNCHANGED events
  /\ UNCHANGED <<config_vars, history_vars, outcome_vars, attempt, result, last_error,
                 section_status, started, calls, succeeded, stream_vars,
                 cancelled>>

StreamSectionStart ==
  /\ mode = "streaming" /\ pc = "section"
  /\ events' = Append(events, Event("section_start", section_index,
                                    progress_of(section_index)))
  /\ BeginSection
  /\ accumulated_text' = <<>>
  /\ last_sent_length' = 0
  /\ time_since_last' = 0
  /\ pc' = "attempt"
  /\ UNCHANGED <<config_vars, history_vars, outcome_vars, full_output, section_index,
                 chunks_used, stages, cancelled>>

\* head of one retry iteration: reset the text and open the model stream
StreamAttemptStart ==
  /\ mode = "streaming" /\ pc = "attempt"
  /\ accumulated_text' = <<>>
  /\ last_sent_length' = 0
  /\ time_since_last' = 0
  /\ calls' = calls + 1
  /\ pc' = "streaming"
  /\ UNCHANGED <<config_vars, history_vars, outcome_vars, full_output, section_index, attempt,
                 result, last_error, section_status, started, succeeded,
                 chunks_used, events, stages, cancelled>>

\* variant: a delta is emitted when either condition holds
StreamChunk_EitherCondition ==
  /\ mode = "streaming" /\ pc = "streaming"
  /\ chunks_used < MaxChunks
  /\ chunks_used' = chunks_used + 1
  /\ \E chunk_len \in ChunkLens, dt \in {0, DELTA_INTERVAL_MS} :
       LET text == IF chunk_len > 0 THEN Append(accumulated_text, chunk_len)
                   ELSE accumulated_text
           since == Min(time_since_last + dt, DELTA_INTERVAL_MS)
           new_chars == TextLen(text) - last_sent_length
       IN /\ accumulated_text' = text
          /\ IF since >= DELTA_INTERVAL_MS \/ new_chars >= MIN_CHUNK_SIZE
               THEN /\ events' = Append(events, DeltaEvent(section_index, text, attempt))
                    /\ last_sent_length' = TextLen(text)
                    /\ time_since_last' = 0
               ELSE /\ time_since_last' = since
                    /\ UNCHANGED <<events, last_sent_length>>
  /\ UNCHANGED <<config_vars, history_vars, outcome_vars, pass_vars, pc, stages, cancelled>>

\* one chunk of the stream: accumulate, and emit a delta when due
StreamChunk ==
  /\ mode = "streaming" /\ pc = "streaming"
  /\ chunks_used < MaxChunks
  /\ chunks_used' = chunks_used + 1
  /\ \E chunk_len \in ChunkLens, dt \in {0, DELTA_INTERVAL_MS} :
       LET text == IF chunk_len > 0 THEN Append(accumulated_text, chunk_len)
                   ELSE accumulated_text
           since == Min(time_since_last + dt, DELTA_INTERVAL_MS)
           new_chars == TextLen(text) - last_sent_length
       IN /\ accumulated_text' = text
          /\ IF since >= DELTA_INTERVAL_MS /\ new_chars >= MIN_CHUNK_SIZE
               THEN /\ events' = Append(events, DeltaEvent(section_index, text, attempt))
                    /\ last_sent_length' = TextLen(text)
                    /\ time_since_last' = 0
               ELSE /\ time_since_last' = since
                    /\ UNCHANGED <<events, last_sent_length>>
  /\ UNCHANGED <<config_vars, history_vars, outcome_vars, pass_vars, pc, stages, cancelled>>

\* _parse_section_json: an instance of the section's schema, or None; empty
\* text is never valid JSON
ParseResults(text, section_name, r) ==
  IF TextLen(text) = 0 THEN {None} ELSE {None, SectionOutput(section_name, r)}

\* variant: an unparsable text does not use up an attempt
StreamEnd_ParseFailureNotCounted ==
  /\ mode = "streaming" /\ pc = "streaming"
  /\ \E parsed \in ParseResults(accumulated_text, current_section, resume) :
       /\ result' = parsed
       /\ IF parsed # None
            THEN /\ succeeded' = TRUE
                 /\ pc' = "section_end"
                 /\ UNCHANGED <<last_error, attempt>>
            ELSE /\ last_error' = ErrorMessage("parse failed")
                 /\ pc' = "attempt"
                 /\ UNCHANGED <<succeeded, attempt>>
  /\ UNCHANGED <<config_vars, history_vars, outcome_vars, full_output, section_index,
                 section_status, started, calls, stream_vars, events, stages,
                 cancelled>>

\* the stream is exhausted: parse the accumulated text
StreamEnd ==
  /\ mode = "streaming" /\ pc = "streaming"
  /\ \E parsed \in ParseResults(accumulated_text, current_section, resume) :
       /\ result' = parsed
       /\ IF parsed # None
            THEN /\ succeeded' = TRUE
                 /\ pc' = "section_end"
                 /\ UNCHANGED <<last_error, attempt>>
            ELSE /\ last_error' = ErrorMessage("parse failed")
                 /\ attempt' = attempt + 1
                 /\ pc' = after_failure(mode, attempt)
                 /\ UNCHANGED succeeded
  /\ UNCHANGED <<config_vars, history_vars, outcome_vars, full_output, section_index,
                 section_status, started, calls, stream_vars, events, stages,
                 cancelled>>

\* an exception thrown into the retry iteration while the stream is consumed
StreamThrow(exception_class) ==
  IF except_Exception_catches(exception_class)
    THEN /\ last_error' = ErrorMessage("stream raised")
         /\ attempt' = attempt + 1
         /\ pc' = after_failure(mode, attempt)
    ELSE /\ pc' = "cancelled"
         /\ UNCHANGED <<last_error, attempt>>

StreamRaise ==
  /\ mode = "streaming" /\ pc = "streaming"
  /\ StreamThrow("Exception")
  /\ UNCHANGED <<config_vars, history_vars, outcome_vars, full_output, section_index, result,
                 section_status, started, calls, succeeded, stream_vars,
                 events, stages, cancelled>>

\* the request is cancelled (client gone) while the stream is awaited
Cancel ==
  /\ mode = "streaming" /\ pc = "streaming"
  /\ cancelled' = TRUE
  /\ StreamThrow("BaseException")
  /\ UNCHANGED <<config_vars, history_vars, outcome_vars, full_output, section_index, result,
                 section_status, started, calls, succeeded, stream_vars,
                 events, stages>>

\* model_dump(mode="json") of a section output followed by output_class(**...)
reconstruct(output) == [enhanced |-> output.enhanced, reasons |-> output.reasons]

\* variant: the schemas with date fields reject their own serialised dates
reconstructs_RejectsDates(section_name, output) ==
  section_name \notin {"experiences", "educations", "certifications"}

\* output_class(**payload) validates: the payload is the dump of an instance
\* of the same schema, so every field is present and every value (ISO date
\* strings, enum values, strings, lists of strings) is accepted again
reconstructs(section_name, output) ==
  /\ section_name \in SectionNames
  /\ {"enhanced", "reasons"} \subseteq DOMAIN output

\* variant: a failed section ends without its error event
StreamSectionEnd_SilentFailure ==
  /\ mode = "streaming" /\ pc = "section_end"
  /\ IF result # None
       THEN /\ events' = Append(events, Event("section_complete", section_index,
                                              progress_of(section_index + 1)))
            /\ full_output' = [full_output EXCEPT ![current_section] = reconstruct(result)]
            /\ section_status' = [section_status EXCEPT ![current_section] = "complete"]
       ELSE /\ section_status' = [section_status EXCEPT ![current_section] = "failed"]
            /\ UNCHANGED <<full_output, events>>
  /\ pc' = next_section_pc
  /\ section_index' = section_index + 1
  /\ UNCHANGED <<config_vars, history_vars, outcome_vars, attempt, result, last_error, started,
                 calls, succeeded, stream_vars, stages, cancelled>>

\* after the retry loop: the section's last event; stream_all_sections
\* rebuilds the result from the section_complete payload and stores it
StreamSectionEnd ==
  /\ mode = "streaming" /\ pc = "section_end"
  /\ IF result # None
       THEN /\ events' = Append(events, Event("section_complete", section_index,
                                              progress_of(section_index + 1)))
            /\ full_output' =
                 IF reconstructs(current_section, result)
                   THEN [full_output EXCEPT ![current_section] = reconstruct(result)]
                   ELSE full_output  \* "Failed to reconstruct": logged only
            /\ section_status' = [section_status EXCEPT ![current_section] = "complete"]
       ELSE /\ events' = Append(events, Event("error", section_index, NoProgress))
            /\ section_status' = [section_status EXCEPT ![current_section] = "failed"]
            /\ UNCHANGED full_output
  /\ pc' = next_section_pc
  /\ section_index' = section_index + 1
  /\ UNCHANGED <<config_vars, history_vars, outcome_vars, attempt, result, last_error, started,
                 calls, succeeded, stream_vars, stages, cancelled>>

\* the "_internal_results" item: consumed by the endpoint, not sent
StreamInternalResults ==
  /\ mode = "streaming" /\ pc = "return"
  /\ full_enhancement_output' = full_output
  /\ raw_output' = full_output
  /\ pc' = "format"
  /\ UNCHANGED <<config_vars, gateway_calls, mapping_result, enhanced_resume, report_summary,
                 feedback_message, section_errors, pass_vars, stream_vars,
                 events, stages, cancelled>>

StreamFormat ==
  /\ mode = "streaming" /\ pc = "format"
  /\ LET out == format_node(resume, full_enhancement_output) IN
       /\ stages' = Append(stages, "format")
       /\ IF out.raised
            THEN /\ events' = Append(events, RequestEvent("error"))
                 /\ pc' = "error"
                 /\ UNCHANGED <<resume, enhanced_resume, full_enhancement_output>>
            ELSE /\ pc' = "report"
                 /\ enhanced_resume' = out.update
                 /\ full_enhancement_output' =
                      after_validation(resume, full_enhancement_output)
                 /\ resume' = resume_after_format(resume, full_enhancement_output)
                 /\ UNCHANGED events
  /\ UNCHANGED <<mode, llm, SCORE_THRESHOLD, job_description, history_vars, mapping_result,
                 report_summary, feedback_message, section_errors, pass_vars,
                 stream_vars, cancelled>>

\* report, then the final state and the "complete" event
StreamReport ==
  /\ mode = "streaming" /\ pc = "report"
  /\ \E response \in TextResponses :
       LET out == report_node(full_enhancement_output, llm, response) IN
         /\ stages' = Append(stages, "report")
         /\ gateway_calls' =
              IF report_reaches_call(full_enhancement_output, llm)
                THEN Append(gateway_calls, GatewayCall("report", response))
                ELSE gateway_calls
         /\ IF out.raised
              THEN /\ events' = Append(events, RequestEvent("error"))
                   /\ pc' = "error"
                   /\ UNCHANGED report_summary
              ELSE /\ events' = Append(events, RequestEvent("complete"))
                   /\ pc' = "done"
                   /\ report_summary' = out.update
  /\ UNCHANGED <<config_vars, raw_output, mapping_result, full_enhancement_output,
                 enhanced_resume, feedback_message, section_errors, pass_vars,
                 stream_vars, cancelled>>

\* ------------------------------------------------------------------- Next
Next ==
  \/ GraphMapping \/ GraphGate \/ GraphFeedback \/ GraphEnhanceLegacy
  \/ GraphFormat \/ GraphReport
  \/ IncrementalEnter \/ IncrementalSectionStart \/ IncrementalAttempt
  \/ IncrementalSectionEnd \/ IncrementalReturn
  \/ SectionalEnter \/ SectionalSectionStart \/ SectionalAttempt
  \/ SectionalSectionEnd \/ SectionalReturn
  \/ StreamStart \/ StreamMapping \/ StreamGate \/ StreamFeedback
  \/ StreamEnter \/ StreamSectionStart \/ StreamAttemptStart \/ StreamChunk
  \/ StreamEnd \/ StreamRaise \/ Cancel \/ StreamSectionEnd
  \/ StreamInternalResults \/ StreamFormat \/ StreamReport

Spec == Init /\ [][Next]_vars

TypeOK ==
  /\ pc \in {"start", "mapping", "gate", "feedback", "enhance", "section",
             "attempt", "streaming", "section_end", "return", "format",
             "report", "done", "error", "cancelled"}
  /\ section_index \in 0..total_sections
  /\ attempt \in 0..INCREMENTAL_MAX_RETRIES
  /\ chunks_used \in 0..MaxChunks

\* ======================================================================
\* Properties
\* ======================================================================
PerSectionMode == mode \in {"incremental", "sectional", "streaming"}

AllSectionIndices == [i \in 1..total_sections |-> i - 1]

IsPrefix(s, t) == Len(s) <= Len(t) /\ SubSeq(t, 1, Len(s)) = s

\* the enhancement pass is over: its caller went on, or got an exception
PassOver ==
  /\ \E i \in 1..Len(stages) : stages[i] = "enhance"
  /\ pc \in {"return", "format", "report", "done", "error"}

TerminalStatus(status) == status \in {"complete", "failed"}

\* C1: in the per-section strategies a pass starts each of the 7 sections
\* exactly once, in the fixed order, whatever happened to the sections before:
\* sections are started in the order 0, 1, 2, ... without repetition, and
\* when the pass is over every one of the 7 sections has been started.
C1_EverySectionStartedInOrder ==
  PerSectionMode =>
    /\ IsPrefix(started, AllSectionIndices)
    /\ PassOver => started = AllSectionIndices

\* C2: sectional mode, exactly one section failed and the six others
\* succeeded: section_errors has that section as its only key, the merged
\* resume has the original field for it and the enhanced content for every
\* other section.
FailedSections == {s \in SectionNames : section_status[s] = "failed"}
CompleteSections == {s \in SectionNames : section_status[s] = "complete"}

ExactlyOneFailed ==
  /\ Cardinality(FailedSections) = 1
  /\ Cardinality(CompleteSections) = total_sections - 1

C2_PartialFailure ==
  (mode = "sectional" /\ ExactlyOneFailed /\ enhanced_resume # None) =>
    /\ DOMAIN section_errors = FailedSections
    /\ \A s \in FailedSections :
         /\ enhanced_resume[s] = resume[s]
         /\ full_enhancement_output[s] = None
    /\ \A s \in CompleteSections :
         /\ full_enhancement_output[s] # None
         /\ enhanced_resume[s] = full_enhancement_output[s].enhanced
         /\ enhanced_resume[s] = MergedSection(s, resume, SectionOutput(s, resume))

C2_Witness ==
  /\ mode = "sectional" /\ pc = "done"
  /\ FailedSections = {"skills"}
  /\ ExactlyOneFailed
  /\ enhanced_resume # None
  /\ enhanced_resume.skills = resume.skills
  /\ enhanced_resume.summary # resume.summary

\* C3: the events of one pass: each section's events are section_start, then
\* section_delta events, then one section_complete or error; a section's first
\* event follows the last event of the section before it (indices 0..6,
\* contiguous, never interleaved); a finished pass has closed all 7 sections.
IsSectionEvent(e) == e.section_index # NoSection

SectionEvents == SelectSeq(events, IsSectionEvent)

ClosesSection(e) == e.event_type \in {"section_complete", "error"}
OpenSection(e) == e.event_type \in {"section_start", "section_delta"}

WellFormedAt(evs, k) ==
  LET e == evs[k] IN
    CASE e.event_type = "section_start" ->
           IF k = 1 THEN e.section_index = 0
           ELSE /\ ClosesSection(evs[k - 1])
                /\ e.section_index = evs[k - 1].section_index + 1
      [] e.event_type \in {"section_delta", "section_complete", "error"} ->
           /\ k > 1
           /\ OpenSection(evs[k - 1])
           /\ evs[k - 1].section_index = e.section_index
      [] OTHER -> FALSE

C3_EventOrdering ==
  mode \in {"incremental", "streaming"} =>
    LET evs == SectionEvents IN
      /\ \A k \in 1..Len(evs) :
           /\ WellFormedAt(evs, k)
           /\ evs[k].section_index \in 0..(total_sections - 1)
      /\ (PassOver /\ (mode = "incremental" => pc # "error")) =>
           /\ Len(evs) > 0
           /\ ClosesSection(evs[Len(evs)])
           /\ evs[Len(evs)].section_index = total_sections - 1

C3_Witness ==
  /\ mode = "streaming" /\ pc = "done"
  /\ \E i, j, k \in 1..Len(events) :
       /\ events[i].event_type = "section_delta"
       /\ events[j].event_type = "error" /\ events[j].section_index = 1
       /\ events[k].event_type = "section_complete"

\* C4: per section, between 1 and max_retries gateway calls; no call once an
\* attempt succeeded; a section whose attempts all failed becomes failed, and
\* no other section changes state with it.
C4_CallsWithinBound ==
  PerSectionMode =>
    /\ calls <= max_retries(mode)
    /\ pc = "section_end" => calls >= 1

C4_RetryStep ==
  PerSectionMode =>
    /\ (succeeded /\ pc \in {"attempt", "streaming", "section_end"}) => calls' = calls
    /\ (pc = "section_end" /\ ~succeeded) =>
         section_status' = [section_status EXCEPT ![current_section] = "failed"]
    /\ (pc = "section_end" /\ succeeded) =>
         section_status' = [section_status EXCEPT ![current_section] = "complete"]

C4_BoundedAttempts == []C4_CallsWithinBound /\ [][C4_RetryStep]_vars

\* C5: route_after_mapping returns "feedback" exactly when the score is below
\* the threshold and "enhance" otherwise, a score equal to the threshold
\* included.
GateRan == stages = <<"mapping", "gate">>

C5_RouteIffBelowThreshold ==
  GateRan =>
    /\ pc \in {"feedback", "enhance"}
    /\ (pc = "feedback") <=> (mapping_result.match_score < SCORE_THRESHOLD)
    /\ (pc = "enhance") <=> (mapping_result.match_score >= SCORE_THRESHOLD)

C5_Witness ==
  /\ GateRan
  /\ mapping_result.match_score = SCORE_THRESHOLD
  /\ pc = "enhance"

\* C6: the stages of a request run in the order mapping, gate, then feedback
\* alone or enhance, format, report: each at most once, none before its
\* predecessor, and feedback never together with enhance, format or report.
FeedbackPath == <<"mapping", "gate", "feedback">>
EnhancePath == <<"mapping", "gate", "enhance", "format", "report">>

FinalState == pc \in {"done", "error", "cancelled"}

C7_BranchesExclusive ==
  FinalState =>
    /\ feedback_message # None =>
         /\ full_enhancement_output = None
         /\ enhanced_resume = None
         /\ report_summary = None
         /\ mapping_result # None
         /\ mapping_result.match_score < SCORE_THRESHOLD
    /\ enhanced_resume # None => feedback_message = None

C7_Witness ==
  /\ pc = "done" /\ mode = "legacy"
  /\ feedback_message # None
  /\ enhanced_resume = None

\* C8: the SSE events of a streaming request that ran to its end hold exactly
\* one terminal event (complete, or an error that carries no section), and it
\* is the last event; a request still running has produced none.
IsTerminalEvent(e) ==
  \/ e.event_type = "complete"
  \/ e.event_type = "error" /\ e.section_index = NoSection

TerminalPositions == {i \in 1..Len(events) : IsTerminalEvent(events[i])}

C8_OneTerminalEvent ==
  mode = "streaming" =>
    /\ Cardinality(TerminalPositions) <= 1
    /\ TerminalPositions \subseteq {Len(events)}
    /\ pc \in {"done", "error"} => TerminalPositions = {Len(events)}
    /\ TerminalPositions # {} => pc \in {"done", "error"}

C8_Witness ==
  /\ mode = "streaming" /\ pc = "done"
  /\ events[Len(events)].event_type = "complete"
  /\ \E i \in 1..Len(events) :
       events[i].event_type = "error" /\ events[i].section_index # NoSection

\* C9: within a section of a streaming pass, the accumulated_text of each
\* section_delta event strictly extends the accumulated_text of the section's
\* previous section_delta event.
StrictExtension(new_text, old_text) ==
  /\ IsPrefix(old_text, new_text)
  /\ TextLen(new_text) > TextLen(old_text)

IsDelta(i) == events[i].event_type = "section_delta"

\* i and j are successive delta events of one section
SuccessiveDeltas(i, j) ==
  /\ i < j /\ IsDelta(i) /\ IsDelta(j)
  /\ events[i].section_index = events[j].section_index
  /\ \A k \in (i + 1)..(j - 1) : ~IsDelta(k)

C9_DeltasExtendWithinSection ==
  \A i, j \in 1..Len(events) :
    SuccessiveDeltas(i, j) =>
      StrictExtension(events[j].accumulated_text, events[i].accumulated_text)

\* C9 as amended: the same, for successive delta events of one attempt of the
\* section; the first delta of a retried attempt starts from empty text again.
C9_DeltasExtendWithinAttempt ==
  \A i, j \in 1..Len(events) :
    (SuccessiveDeltas(i, j) /\ events[i].attempt_no = events[j].attempt_no) =>
      StrictExtension(events[j].accumulated_text, events[i].accumulated_text)

C9_Witness ==
  \E i, j \in 1..Len(events) :
    /\ SuccessiveDeltas(i, j)
    /\ events[i].attempt_no = events[j].attempt_no
    /\ TextLen(events[j].accumulated_text) > TextLen(events[i].accumulated_text)

\* C10: once the request is cancelled while a section's stream is consumed,
\* no further chunk is consumed, no attempt and no section is started, and no
\* stage (format, report) runs.
C10_Frozen ==
  cancelled =>
    /\ chunks_used' = chunks_used
    /\ calls' = calls
    /\ attempt' = attempt
    /\ started' = started
    /\ stages' = stages
    /\ events' = events

C10_CancelStopsEverything == [][C10_Frozen]_vars

C10_Witness ==
  /\ cancelled /\ pc = "cancelled"
  /\ chunks_used > 0
  /\ attempt = 0
  /\ section_index < total_sections - 1
  /\ enhanced_resume = None

\* C11: for each of the 7 sections the merged resume holds the validated
\* enhanced content when the FullEnhancementOutput carries the section and the
\* original section otherwise; with every section absent the merged resume
\* equals the original.
MergeRan == enhanced_resume # None

ProtectedFields(section_name) ==
  CASE section_name = "experiences" ->
         {"start_date", "end_date", "company_name", "role_title"}
    [] section_name = "educations" ->
         {"start_date", "end_date", "university_name", "degree"}
    [] section_name = "projects" -> {"project_name", "project_link"}
    [] OTHER -> {}

\* merged is the enhanced list, item by item, except that a protected field
\* of an item the original also has may hold the original's value
IsValidatedContent(section_name, merged, enhanced, original) ==
  IF section_name \notin ValidatedSections THEN merged = enhanced
  ELSE /\ Len(merged) = Len(enhanced)
       /\ \A i \in 1..Len(enhanced) : \A f \in DOMAIN enhanced[i] :
            \/ merged[i][f] = enhanced[i][f]
            \/ /\ i <= Len(original)
               /\ f \in ProtectedFields(section_name)
               /\ merged[i][f] = original[i][f]

C11_MergePerSection ==
  MergeRan =>
    /\ \A s \in SectionNames :
         IF raw_output[s] = None
           THEN /\ enhanced_resume[s] = resume[s]
                /\ (s \in enhanced_resume.null_fields) <=> (s \in resume.null_fields)
           ELSE /\ s \notin enhanced_resume.null_fields
                /\ IsValidatedContent(s, enhanced_resume[s],
                                      raw_output[s].enhanced, resume[s])
    /\ raw_output = EmptyFullOutput => enhanced_resume = resume

C11_Witness ==
  /\ MergeRan
  /\ raw_output.educations # None /\ Len(raw_output.educations.enhanced) = 2
  /\ raw_output.skills = None /\ enhanced_resume.skills = resume.skills
  /\ raw_output.languages # None /\ enhanced_resume.languages # resume.languages
  /\ raw_output.certifications # None /\ raw_output.projects = None
  /\ resume.null_fields = NullableSections
  /\ enhanced_resume.null_fields = {"experiences", "projects"}

\* C12: after validation, at every index present in both lists an enhanced
\* experience has the original's start_date, end_date, company_name and
\* role_title and an enhanced education the original's start_date, end_date,
\* university_name and degree, whatever the model returned.
SharedIndices(merged, original) == 1..Min(Len(merged), Len(original))

C12_ProtectedFieldsKept ==
  MergeRan =>
    /\ \A i \in SharedIndices(enhanced_resume.experiences, resume.experiences) :
         \A f \in ProtectedFields("experiences") :
           enhanced_resume.experiences[i][f] = resume.experiences[i][f]
    /\ \A i \in SharedIndices(enhanced_resume.educations, resume.educations) :
         \A f \in ProtectedFields("educations") :
           enhanced_resume.educations[i][f] = resume.educations[i][f]

C12_Witness ==
  /\ MergeRan
  /\ raw_output.experiences # None
  /\ Len(raw_output.experiences.enhanced) > Len(resume.experiences)
  /\ Len(resume.experiences) = 2
  /\ raw_output.experiences.enhanced[2].role_title # resume.experiences[2].role_title
  /\ raw_output.experiences.enhanced[2].start_date # resume.experiences[2].start_date
  /\ enhanced_resume.experiences[2].role_title = resume.experiences[2].role_title
  /\ enhanced_resume.experiences[2].description # resume.experiences[2].description
  /\ raw_output.educations # None
  /\ Len(raw_output.educations.enhanced) > 0
  /\ raw_output.educations.enhanced[1].degree # resume.educations[1].degree

\* C13: in every mode, whenever the merge produced an enhanced resume its
\* personal_info equals the personal_info of the input resume.
C13_PersonalInfoKept ==
  MergeRan => enhanced_resume.personal_info = resume.personal_info

C13_Witness ==
  /\ MergeRan /\ mode = "streaming" /\ pc = "done"
  /\ enhanced_resume.summary # resume.summary
  /\ enhanced_resume.personal_info.email_address = "ada@x.org"

ReportCalls == {i \in 1..Len(gateway_calls) : gateway_calls[i].stage = "report"}

StageRan(stage) == \E i \in 1..Len(stages) : stages[i] = stage

\* C14: the mapping stage puts a MappingResult in state only when its score
\* is in 1..10, and then with the score the model returned; a result with a
\* score outside the range makes the stage raise: no clamping, no default.
MappingCalls == {i \in 1..Len(gateway_calls) : gateway_calls[i].stage = "mapping"}

ReturnedMappingResult(call) == call.response.tag = "MappingResult"

C14_ScoreInRangeOrError ==
  /\ mapping_result # None => valid_score(mapping_result.match_score)
  /\ \A i \in MappingCalls :
       LET call == gateway_calls[i] IN
         ReturnedMappingResult(call) =>
           IF valid_score(call.response.match_score)
             THEN mapping_result = MappingResultOf(call.response.match_score)
             ELSE mapping_result = None /\ pc = "error"

C14_Witness ==
  /\ pc = "error" /\ mapping_result = None
  /\ \E i \in MappingCalls :
       /\ ReturnedMappingResult(gateway_calls[i])
       /\ gateway_calls[i].response.match_score = MaxScore + 1

\* C15: the mapping stage makes one gateway call per request, never a second
\* one; when the call raises or returns something that is not a MappingResult
\* the request ends in an error and none of feedback, enhancement, format and
\* report runs.
MappingCallFailed ==
  \E i \in MappingCalls : ~ReturnedMappingResult(gateway_calls[i])

C15_MappingOnceAndFatal ==
  /\ Cardinality(MappingCalls) <= 1
  /\ (StageRan("mapping") /\ llm = "set") => Cardinality(MappingCalls) = 1
  /\ MappingCallFailed =>
       /\ pc = "error"
       /\ mapping_result = None
       /\ \A stage \in {"feedback", "enhance", "format", "report"} : ~StageRan(stage)

C15_Witness ==
  /\ MappingCallFailed /\ pc = "error"
  /\ mode = "streaming"
  /\ gateway_calls[1].response = WrongModel
  /\ events[Len(events)].event_type = "error"

\* C16: the merge (format) stage starts only after each of the 7 sections
\* reached a terminal state, and from then on the FullEnhancementOutput gains
\* or loses no section.
FormatStarted == pc = "format" \/ StageRan("format")

Populated(fo) == IF fo = None THEN {} ELSE {s \in SectionNames : fo[s] # None}

C16_AllTerminalAtMerge ==
  /\ FormatStarted => StageRan("enhance")
  /\ (PerSectionMode /\ FormatStarted) =>
       \A s \in SectionNames : TerminalStatus(section_status[s])

C16_SectionsFrozen ==
  FormatStarted =>
    Populated(full_enhancement_output') = Populated(full_enhancement_output)

C16_MergeAfterAllSections == []C16_AllTerminalAtMerge /\ [][C16_SectionsFrozen]_vars

C16_Witness ==
  /\ pc = "done" /\ StageRan("format") /\ mode = "incremental"
  /\ FailedSections # {} /\ CompleteSections # {}
  /\ Populated(full_enhancement_output) = CompleteSections

\* C17: along the events of one enhancement pass, progress_percent never
\* decreases from one event that carries it to the next.
CarriesProgress(e) == e.progress_percent # NoProgress

C17_ProgressMonotonic ==
  \A i, j \in 1..Len(events) :
    (i < j /\ CarriesProgress(events[i]) /\ CarriesProgress(events[j])) =>
      events[i].progress_percent <= events[j].progress_percent

\* C18: after a pass in a per-section mode, the result returned to the caller
\* holds an error map with an entry for each section that ended failed and
\* none for a section that succeeded.
Returned == pc = "done" /\ StageRan("enhance")

C18_ErrorMapMatchesFailures ==
  (PerSectionMode /\ Returned) => DOMAIN section_errors = FailedSections

\* C19: a report-stage gateway call that raises ends the request in an error
\* response; it is not absorbed into a successful response.
ReportCallRaised ==
  \E i \in ReportCalls : gateway_calls[i].response.tag = "raise"

C19_ReportFailurePropagates == ReportCallRaised => pc = "error"

\* C20: when no populated section of the FullEnhancementOutput holds a
\* ChangeReason, the report stage makes no gateway call and report_summary
\* stays absent; report_summary is never the empty string.
NoReasonHeld(fo) == \A s \in SectionNames : fo[s] = None \/ fo[s].reasons = <<>>

C20_NoReasonsNoReport ==
  /\ (StageRan("report") /\ NoReasonHeld(raw_output)) =>
       /\ ReportCalls = {}
       /\ report_summary = None
       /\ pc = "done"
  /\ report_summary # None => strip(report_summary.content) # <<>>

C20_Witness ==
  /\ StageRan("report") /\ pc = "done"
  /\ NoReasonHeld(raw_output)
  /\ raw_output.summary # None /\ raw_output.projects # None
  /\ report_summary = None

\* C21: the feedback stage leaves a feedback_message in state only when the
\* model returned text with at least one non-whitespace character, and then
\* that text; an empty, whitespace-only or non-text response (or a raised
\* call) ends the request in an error with no feedback_message.
FeedbackCalls == {i \in 1..Len(gateway_calls) : gateway_calls[i].stage = "feedback"}

HasVisibleChar(chars) == \E i \in 1..Len(chars) : chars[i] \notin Whitespace

UsableText(response) ==
  /\ response.tag = "message"
  /\ "not_str" \notin DOMAIN response
  /\ HasVisibleChar(response.content)

C21_FeedbackTextOrError ==
  /\ feedback_message # None => UsableText(feedback_message)
  /\ \A i \in FeedbackCalls :
       LET response == gateway_calls[i].response IN
         IF UsableText(response)
           THEN feedback_message = TextOf(response.content)
           ELSE feedback_message = None /\ pc = "error"

C21_Witness ==
  /\ pc = "error" /\ feedback_message = None
  /\ \E i \in FeedbackCalls : gateway_calls[i].response = TextOf(<<" ", "\n">>)


\* C22: a stage invoked on a state that lacks one of its required inputs
\* raises at once: the request ends in an error, no gateway call is made, no
\* state update is returned, and nothing runs afterwards (no retry).
StageNames == {"mapping", "gate", "feedback", "enhance", "format", "report"}

MissingInput ==
  \/ pc = "mapping" /\ (resume = None \/ job_description = None)
  \/ pc \in {"gate", "feedback"} /\ mapping_result = None
  \/ pc = "enhance" /\ (resume = None \/ mapping_result = None)
  \/ pc = "format" /\ (resume = None \/ full_enhancement_output = None)
  \/ pc = "report" /\ full_enhancement_output = None

C22_RaisesAtOnce ==
  MissingInput =>
    /\ pc' = "error"
    /\ gateway_calls' = gateway_calls
    /\ calls' = calls
    /\ UNCHANGED outcome_vars

C22_ErrorIsFinal == pc # "error"

C22_MissingInputIsFatal == [][C22_RaisesAtOnce /\ C22_ErrorIsFinal]_vars

C22_Witness ==
  /\ pc = "error" /\ stages = <<"report">>
  /\ full_enhancement_output = None /\ report_summary = None
  /\ gateway_calls = <<>>


\* C23: in incremental mode a section is stored in the accumulated output and
\* reported by section_complete only if an attempt returned an instance of
\* its output schema; a section whose attempts all failed stays absent, gets
\* an error event, and the pass goes on with the next section.
CompleteEventSections ==
  {section_name_at(events[i].section_index) :
     i \in {k \in 1..Len(events) : events[k].event_type = "section_complete"}}

ErrorEventSections ==
  {section_name_at(events[i].section_index) :
     i \in {k \in 1..Len(events) : events[k].event_type = "error"
                                    /\ events[k].section_index # NoSection}}

PassAborted == pc = "error" /\ started # <<>> /\ raw_output = None

C23_OnlySchemaInstancesStored ==
  mode = "incremental" =>
    /\ \A s \in SectionNames :
         full_output[s] # None => isinstance_output(full_output[s])
    /\ \A s \in CompleteEventSections : isinstance_output(full_output[s])
    /\ \A s \in SectionNames :
         section_status[s] = "failed" => (full_output[s] = None /\ s \in ErrorEventSections)
    /\ ~PassAborted


\* C24: in streaming mode an attempt whose stream ended with text that does
\* not parse counts as a failed attempt: it uses up one attempt, a further
\* attempt (if one remains) starts from empty text, and otherwise the section
\* ends with an error event; what is stored for a section is the parse of
\* the text of a successful attempt and nothing else.
ParseFailed ==
  /\ mode = "streaming" /\ pc = "streaming" /\ pc' \in {"attempt", "section_end"}
  /\ last_error' = ErrorMessage("parse failed")
  /\ result' = None

C24_ParseFailureCounts ==
  ParseFailed =>
    /\ attempt' = attempt + 1
    /\ succeeded' = succeeded /\ full_output' = full_output
    /\ pc' = IF attempt + 1 < STREAMING_MAX_RETRIES THEN "attempt" ELSE "section_end"

C24_RetryFromEmptyText ==
  (mode = "streaming" /\ pc = "attempt" /\ pc' = "streaming") =>
    /\ accumulated_text' = <<>> /\ last_sent_length' = 0
    /\ calls' = calls + 1

C24_ExhaustedEndsInError ==
  (mode = "streaming" /\ pc = "section_end" /\ result = None /\ pc' # "section_end") =>
    /\ events' = Append(events, Event("error", section_index, NoProgress))
    /\ full_output' = full_output
    /\ section_status'[current_section] = "failed"

C24_StoredIsParsedText ==
  (mode = "streaming" /\ full_output' # full_output /\ pc # "enhance") =>
    /\ succeeded /\ TextLen(accumulated_text) > 0
    /\ result \in ParseResults(accumulated_text, current_section, resume) \ {None}
    /\ full_output' = [full_output EXCEPT ![current_section] = reconstruct(result)]

C24_ParseFailureIsAFailedAttempt ==
  [][/\ C24_ParseFailureCounts
     /\ C24_RetryFromEmptyText
     /\ C24_ExhaustedEndsInError
     /\ C24_StoredIsParsedText]_vars

\* the last attempt's text did not parse and the section got its error event
C24_Witness ==
  /\ mode = "streaming" /\ pc \in {"section", "return"}
  /\ last_error = ErrorMessage("parse failed")
  /\ attempt = STREAMING_MAX_RETRIES
  /\ TextLen(accumulated_text) > 0
  /\ events[Len(events)].event_type = "error"
  /\ events[Len(events)].section_index = section_index - 1


\* C25: in streaming mode the sections populated in the output handed to the
\* merge stage are those for which section_complete was sent; a section for
\* which a per-section error event was sent is absent from it.
C25_EventsMatchOutput ==
  mode = "streaming" =>
    /\ \A s \in CompleteEventSections : full_output[s] # None
    /\ \A s \in ErrorEventSections : full_output[s] = None
    /\ FormatStarted =>
         /\ Populated(full_enhancement_output) = CompleteEventSections
         /\ Populated(full_enhancement_output) \cap ErrorEventSections = {}

C25_Witness ==
  /\ mode = "streaming" /\ pc = "format"
  /\ "summary" \in ErrorEventSections
  /\ "experiences" \in CompleteEventSections
  /\ full_enhancement_output.experiences # None
  /\ full_enhancement_output.summary = None


\* C26: format_node returns an enhanced resume without raising whenever
\* resume and full_enhancement_output are set, a null experiences or projects
\* list of the original resume with a non-empty enhanced list included.
FormatRaised == pc = "error" /\ stages # <<>> /\ stages[Len(stages)] = "format"

C26_FormatNeverRaises ==
  (resume # None /\ full_enhancement_output # None) => ~FormatRaised


\* C27: for every score and every threshold the streaming endpoint goes to
\* feedback exactly when route_after_mapping returns "feedback" for the same
\* mapping result, and to enhancement exactly when it returns "enhance".
C27_SameRouteOnBothEntries ==
  (GateRan /\ mode = "streaming") =>
    LET route == route_after_mapping(mapping_result, SCORE_THRESHOLD) IN
      /\ route \in {"feedback", "enhance"}
      /\ pc = route

C27_Witness ==
  /\ GateRan /\ mode = "streaming"
  /\ mapping_result.match_score = SCORE_THRESHOLD
  /\ pc = "enhance"


\* C28: a pass of a per-section strategy ends with all 7 sections complete
\* or failed and returns its aggregate, after at most max_retries calls per
\* section (7 * max_retries in all), provided every call returns or fails;
\* no pattern of section failures aborts the pass.  (A request the client
\* cancelled is not a pass that has to return.)
PassEntered == PerSectionMode /\ pc = "section" /\ section_index = 0

PassReturned ==
  /\ raw_output # None
  /\ \A s \in SectionNames : TerminalStatus(section_status[s])

C28_CallsBounded ==
  PerSectionMode =>
    /\ calls <= max_retries(mode)
    /\ Len(started) <= total_sections

C28_PassTerminates ==
  /\ []C28_CallsBounded
  /\ (PassEntered ~> (PassReturned \/ cancelled))


\* ----------------------------------------------- liveness specification
\* Every gateway call, stream and node eventually returns or fails: a
\* request that can take a step eventually takes one.
SpecLive == Init /\ [][Next]_vars /\ WF_vars(Next)


\* C29: each validator returns a list as long as the enhanced list, item by
\* item in the same order; an enhanced list shorter than the original list
\* raises nothing, and an enhanced item at an index the original list does
\* not have comes back as the model returned it.
OriginalsAreLists == \A s \in ValidatedSections : s \notin resume.null_fields

SameItemAt(section_name, validated, enhanced, i) ==
  \A f \in DOMAIN enhanced[i] \ ProtectedFields(section_name) :
    validated[i][f] = enhanced[i][f]

C30_MergeStep == pc = "format" => resume' = resume

GateInit ==
  /\ mode \in {"legacy", "streaming"}
  /\ llm = "set"
  /\ SCORE_THRESHOLD \in GateMinThreshold..GateMaxThreshold
  /\ resume \in Resumes
  /\ job_description = SampleJobDescription
  /\ pc = "gate"
  /\ mapping_result \in {MappingResultOf(k) : k \in MinScore..MaxScore}
  /\ full_enhancement_output = None
  /\ enhanced_resume = None
  /\ report_summary = None
  /\ feedback_message = None
  /\ section_errors = [s \in {} |-> "msg"]
  /\ full_output = EmptyFullOutput
  /\ section_index = 0
  /\ attempt = 0
  /\ result = None
  /\ last_error = None
  /\ accumulated_text = <<>>
  /\ last_sent_length = 0
  /\ time_since_last = 0
  /\ events = IF mode = "streaming"
                THEN <<RequestEvent("mapping_start"), RequestEvent("mapping_complete")>>
                ELSE <<>>
  /\ stages = <<"mapping">>
  /\ section_status = PendingAll
  /\ started = <<>>
  /\ calls = 0
  /\ succeeded = FALSE
  /\ chunks_used = 0
  /\ cancelled = FALSE
  /\ gateway_calls = <<GatewayCall("mapping", mapping_result)>>
  /\ raw_output = None

GateNext == GraphGate \/ StreamGate

\* -------------------------------------------------- stage specification
\* Each stage entered on a state lacking one of its inputs, next to the
\* requests of Init.  The streaming endpoint tests mapping_result before it
\* routes, so its gate is not entered without one; it returns before the
\* mapping stage when the model object is missing.
MissingInputInit ==
  /\ mode \in {"legacy", "incremental", "sectional", "streaming"}
  /\ llm \in {"set", "none"}
  /\ SCORE_THRESHOLD = ConfiguredThreshold
  /\ resume \in Resumes \cup {None}
  /\ job_description \in {SampleJobDescription, None}
  /\ pc \in StageNames
  /\ mapping_result \in {None, MappingResultOf(ConfiguredThreshold)}
  /\ full_enhancement_output \in {None, EmptyFullOutput}
  /\ MissingInput
  /\ mode = "streaming" => (llm = "set" /\ pc # "gate")
  /\ enhanced_resume = None
  /\ report_summary = None
  /\ feedback_message = None
  /\ section_errors = [s \in {} |-> "msg"]
  /\ full_output = EmptyFullOutput
  /\ section_index = 0
  /\ attempt = 0
  /\ result = None
  /\ last_error = None
  /\ accumulated_text = <<>>
  /\ last_sent_length = 0
  /\ time_since_last = 0
  /\ events = <<>>
  /\ stages = <<>>
  /\ section_status = PendingAll
  /\ started = <<>>
  /\ calls = 0
  /\ succeeded = FALSE
  /\ chunks_used = 0
  /\ cancelled = FALSE
  /\ gateway_calls = <<>>
  /\ raw_output = full_enhancement_output

StageInit == Init \/ MissingInputInit

SpecStage == StageInit /\ [][Next]_vars


\* --------------------------------------------------- merge specification
\* The format and report stages applied to the outputs a single enhancement
\* call may return: every subset of sections populated, lists shorter and
\* longer than the original's, protected fields changed or not, with and
\* without reasons, for resumes with and without null lists.
MergeResumes ==
  {WithNullLists(SampleResume, nulls) :
     nulls \in {{}, {"experiences"}, NullableSections}}

Repeat(item, n) == [i \in 1..n |-> item]

EnhancedLists(items) == {Repeat(item, n) : item \in items, n \in 0..MaxEnhancedLen}

ExperienceItems ==
  { [SampleResume.experiences[1] EXCEPT !.description = "led things"],
    [role_title |-> "Principal", company_name |-> "Globex",
     start_date |-> "2016-01", end_date |-> "2019-12",
     description |-> "led things"] }

EducationItems ==
  { [SampleResume.educations[1] EXCEPT !.major = "Computer Science"],
    [degree |-> "MSc", major |-> "Computer Science", university_name |-> "ETH",
     start_date |-> "2011-09", end_date |-> NoDate] }

ProjectItems ==
  { [SampleResume.projects[1] EXCEPT !.description = "a resume tool"],
    [project_name |-> <<"https://", "x.org/tool">>,
     description |-> "a resume tool",
     project_link |-> <<"see", "repo">>] }

MergeOutput(populated, with_reasons, experiences, educations, projects) ==
  [s \in SectionNames |->
     IF s \notin populated THEN None
     ELSE [enhanced |-> CASE s = "experiences" -> experiences
                          [] s = "educations" -> educations
                          [] s = "projects" -> projects
                          [] OTHER -> SectionOutput(s, SampleResume).enhanced,
           reasons |-> IF with_reasons THEN <<Reason(s)>> ELSE <<>>]]

MergeOutputs ==
  {MergeOutput(populated, with_reasons, experiences, educations, projects) :
     populated \in SUBSET SectionNames, with_reasons \in BOOLEAN,
     experiences \in EnhancedLists(ExperienceItems),
     educations \in EnhancedLists(EducationItems),
     projects \in EnhancedLists(ProjectItems)}

MergeInit ==
  /\ mode = "legacy"
  /\ llm = "set"
  /\ SCORE_THRESHOLD = ConfiguredThreshold
  /\ resume \in MergeResumes
  /\ job_description = SampleJobDescription
  /\ pc = "format"
  /\ mapping_result = MappingResultOf(ConfiguredThreshold)
  /\ full_enhancement_output \in MergeOutputs
  /\ raw_output = full_enhancement_output
  /\ enhanced_resume = None
  /\ report_summary = None
  /\ feedback_message = None
  /\ section_errors = [s \in {} |-> "msg"]
  /\ full_output = EmptyFullOutput
  /\ section_index = 0
  /\ attempt = 0
  /\ result = None
  /\ last_error = None
  /\ accumulated_text = <<>>
  /\ last_sent_length = 0
  /\ time_since_last = 0
  /\ events = <<>>
  /\ stages = <<"mapping", "gate", "enhance">>
  /\ section_status = PendingAll
  /\ started = <<>>
  /\ calls = 0
  /\ succeeded = FALSE
  /\ chunks_used = 0
  /\ cancelled = FALSE
  /\ gateway_calls =
       << GatewayCall("mapping", MappingResultOf(ConfiguredThreshold)),
          GatewayCall("enhance", full_enhancement_output) >>

MergeNext == GraphFormat \/ GraphReport

SpecMerge == MergeInit /\ [][MergeNext]_vars

SpecGate == GateInit /\ [][GateNext]_vars

====
